---- MODULE Spec2Model ----
(***************************************************************************)
(* A model of the ingestion pipeline of metu-assistant:                    *)
(*   - src/src/scraper.py    the breadth-first, scope-limited crawler      *)
(*   - src/src/embeddings.py the FAISS vector store life cycle             *)
(*                                                                         *)
(* Strings are modelled as sequences of tokens.  A token is an atomic run  *)
(* of characters ("univ.example", "/", "dept", ".pdf", "#", ...); the      *)
(* string is the concatenation of its tokens, no token of the alphabet is  *)
(* a proper prefix of another one, so prefix / suffix / substring tests on *)
(* token sequences agree with the tests Python makes on the characters.    *)
(* The scheme "https://" that starts every absolute URL is left implicit.  *)
(***************************************************************************)
EXTENDS Integers, Sequences, FiniteSets, TLC

(***************************************************************************)
(* Bounds of the model                                                     *)
(***************************************************************************)
\* largest page budget of a run with one seed
MaxBudget == 3
\* largest page budget of a run with several seeds
MultiSeedBudget == 1
\* largest number of <a href> elements on one served page
MaxLinks == 2

(***************************************************************************)
(* Program constants                                                       *)
(***************************************************************************)
\* scraper.py:178  "len(text) > 100"
MinTextLen == 100
\* scraper.py:220 / spec scenario: max_pages = 5
ScenarioMaxPages == 5

\* Python's None, where a record or None is expected
None == [none |-> TRUE]
\* no URL popped yet
NoUrl == <<>>

(***************************************************************************)
(* Generic string helpers (Python str methods on token sequences)          *)
(***************************************************************************)
Range(s) == {s[i] : i \in 1..Len(s)}

\* position of the first token of s that is in S, Len(s)+1 if there is none
FirstPos(s, S) ==
  IF \E i \in 1..Len(s) : s[i] \in S
  THEN CHOOSE i \in 1..Len(s) : s[i] \in S /\ \A j \in 1..(i-1) : s[j] \notin S
  ELSE Len(s) + 1

\* s.startswith(p)
StartsWith(s, p) == Len(p) <= Len(s) /\ SubSeq(s, 1, Len(p)) = p

\* s.endswith(p)
EndsWith(s, p) == Len(p) <= Len(s) /\ SubSeq(s, Len(s) - Len(p) + 1, Len(s)) = p

\* a in b  (substring test)
IsInfix(a, b) == \E i \in 0..(Len(b) - Len(a)) : SubSeq(b, i + 1, i + Len(a)) = a

RECURSIVE RStrip(_, _)
\* s.rstrip(c)
RStrip(s, c) ==
  IF s # <<>> /\ s[Len(s)] = c THEN RStrip(SubSeq(s, 1, Len(s) - 1), c) ELSE s

RECURSIVE LStrip(_, _)
LStrip(s, c) == IF s # <<>> /\ Head(s) = c THEN LStrip(Tail(s), c) ELSE s

\* s.strip(c)
Strip(s, c) == LStrip(RStrip(s, c), c)

\* s.replace(a, b) for single tokens a, b
Replace(s, a, b) == [i \in 1..Len(s) |-> IF s[i] = a THEN b ELSE s[i]]

\* str.lower() token by token
LowerTok(t) ==
  CASE t = ".PNG" -> ".png"
    [] t = ".PDF" -> ".pdf"
    [] OTHER -> t
Lower(s) == [i \in 1..Len(s) |-> LowerTok(s[i])]

\* any(s.lower().endswith(ext) for ext in exts): an extension is one token,
\* so only the last token of s decides
LowerEndsWithAny(s, exts) == s # <<>> /\ LowerTok(s[Len(s)]) \in exts

RECURSIVE Perms(_)
\* all the orders in which list(set(...)) may return the elements of S
Perms(S) ==
  IF S = {} THEN {<<>>}
  ELSE UNION {{<<x>> \o p : p \in Perms(S \ {x})} : x \in S}

(***************************************************************************)
(* URLs                                                                    *)
(***************************************************************************)
Host == <<"univ.example">>
Root == Host \o <<"/">>
Dept == Host \o <<"/", "dept">>
DeptTop == Dept \o <<"#", "top">>
Page2 == Dept \o <<"/", "page2">>
DocPdf == Dept \o <<"/", "doc", ".pdf">>
Logo == Dept \o <<"/", "logo", ".png">>
Other == Host \o <<"/", "other">>
OffSite == <<"othersite.example", "/", "dept", "/", "x">>
SubA == <<"sub.", "univ.example", "/", "dept", "/", "a">>
FragTop == <<"#", "top">>

\* schemes without a network location
OpaqueSchemes == {"mailto:", "tel:"}

\* urllib.parse.urlparse: fragment is cut first, then the query, then the
\* network location ends at the first "/"
urlparse(url) ==
  LET h == FirstPos(url, {"#"})
      noFrag == SubSeq(url, 1, h - 1)
      q == FirstPos(noFrag, {"?"})
      noQuery == SubSeq(noFrag, 1, q - 1)
      opaque == noQuery # <<>> /\ Head(noQuery) \in OpaqueSchemes
      p == IF opaque THEN 2 ELSE FirstPos(noQuery, {"/"})
  IN [netloc |-> IF opaque THEN <<>> ELSE SubSeq(noQuery, 1, p - 1),
      path |-> SubSeq(noQuery, p, Len(noQuery)),
      query |-> SubSeq(noFrag, q + 1, Len(noFrag)),
      fragment |-> SubSeq(url, h + 1, Len(url))]

\* url.split('#')[0]
StripFragment(url) == SubSeq(url, 1, FirstPos(url, {"#"}) - 1)

\* urllib.parse.urljoin for the two kinds of href of the model: a
\* fragment-only reference replaces the fragment of the current URL, an
\* absolute reference is taken as it is
urljoin(current_url, href) ==
  IF href # <<>> /\ Head(href) = "#"
  THEN StripFragment(current_url) \o href
  ELSE href

skip_extensions == {".jpg", ".jpeg", ".png", ".gif", ".css", ".js", ".ico", ".svg"}

is_valid_url(url, base_domain) ==
  LET parsed == urlparse(url)
  IN IF ~IsInfix(base_domain, parsed.netloc) THEN FALSE
     ELSE IF LowerEndsWithAny(url, skip_extensions) THEN FALSE
     ELSE IF \/ StartsWith(url, <<"#">>)
             \/ IsInfix(<<"mailto:">>, url)
             \/ IsInfix(<<"tel:">>, url) THEN FALSE
     ELSE TRUE

\* the set behind "list(set(links))"
extract_links(anchors, current_url, base_domain) ==
  {StripFragment(urljoin(current_url, href)) :
     href \in {a \in anchors : is_valid_url(urljoin(current_url, a), base_domain)}}

\* the set behind "list(set(pdf_links))"
extract_pdf_links(anchors, current_url) ==
  {urljoin(current_url, href) : href \in {a \in anchors : LowerEndsWithAny(a, {".pdf"})}}

\* the links of a page that are in the scope of a seed: valid for the domain
\* of the seed, with a path that starts with the path prefix of the seed
InScopeLinks(anchors, current_url, seed) ==
  {l \in extract_links(anchors, current_url, urlparse(seed).netloc) :
     StartsWith(urlparse(l).path, RStrip(urlparse(seed).path, "/"))}

\* what scrape_page returns for a response: None for a failed request, else
\* (text, page_links, pdf_links); the two lists come from list(set(...)) and
\* are kept as sets, their order is chosen where they are iterated
scrape_page(url, response) ==
  IF response = None THEN None
  ELSE [text |-> response.text,
        page_links |-> extract_links(response.anchors, url, urlparse(url).netloc),
        pdf_links |-> extract_pdf_links(response.anchors, url)]

\* a letter outside ASCII (o with diaeresis), and the same letter percent-encoded
NonAsciiLetter == "o-umlaut"
PercentEncoded == "%C3%B6"

\* urllib.parse.unquote: percent-encoded octets become the character they
\* encode
unquote(s) ==
  [i \in 1..Len(s) |-> IF s[i] = PercentEncoded THEN NonAsciiLetter ELSE s[i]]

\* "c.isalnum() or c in '._-'" holds for every character of the token:
\* str.isalnum() is true of the letters and digits of every script
SafeTok(t) == t \notin {"/", "?", "#", "mailto:", "tel:", PercentEncoded}

\* name of the text artifact of a page
PageFileName(url) ==
  LET parsed == urlparse(url)
      stripped == Replace(Strip(parsed.path, "/"), "/", "_")
      path_parts == IF stripped = <<>> THEN <<"index">> ELSE stripped
      filename == parsed.netloc \o <<"_">> \o path_parts \o <<".txt">>
  IN [i \in 1..Len(filename) |-> IF SafeTok(filename[i]) THEN filename[i] ELSE "_"]


(***************************************************************************)
(* The served site: what an HTTP GET of a URL may answer                   *)
(***************************************************************************)
\* the href attributes a served page may carry
Hrefs == {FragTop, Page2, DocPdf, Other, OffSite, SubA}

\* lengths of the extracted text: at the threshold, above it
TextLens == {MinTextLen, MinTextLen + 1}

\* the seed lists run_scraper may be called with
SeedLists == {<<Dept>>, <<DeptTop>>, <<Dept, Root>>, <<Dept, Dept>>}

AnchorSets == {A \in SUBSET Hrefs : Cardinality(A) <= MaxLinks}

Pages == [text : TextLens, anchors : AnchorSets]

\* the site of the end-to-end scenario: the seed page links page2 and a PDF,
\* page2 links nothing, every request succeeds
ScenarioPages(u) ==
  IF u = Dept THEN {[text |-> MinTextLen + 1, anchors |-> {Page2, DocPdf}]}
  ELSE IF u = Page2 THEN {[text |-> MinTextLen + 1, anchors |-> {}]}
  ELSE [text : TextLens, anchors : {{}}]

VARIABLES
  base_urls,      \* run_scraper argument
  max_pages,      \* run_scraper argument
  env,            \* "free": any answer to any request; "scenario": ScenarioPages;
                  \* "short": any answer with a text of at most MinTextLen
  pc,             \* position in run_scraper: "start", "while", "done"
  seedIdx,        \* index in base_urls of the current base_url (0 before the first)
  visited,        \* set of URLs
  to_visit,       \* the frontier, a list of URLs
  stats,          \* pages_scraped, pages_failed, pdfs_found
  all_pdf_links,  \* list of PDF URLs, with duplicates
  url,            \* the URL popped last
  missed,         \* links of the page scraped last that are in the scope of
                  \* the seed and neither visited nor queued after the iteration
  rawDir,         \* RAW_DIR: file name -> URL whose text the file holds
  returned,       \* the dict run_scraper returns, None until it returns
  attempts,       \* calls of scrape_page in the crawl of the current seed
  sleepPending,   \* a fetch attempt was made and time.sleep not called since
  failedSeed,     \* URLs whose fetch failed in the crawl of the current seed
  failedRun       \* URLs whose fetch failed in this run_scraper call

crawlVars == <<base_urls, max_pages, env, pc, seedIdx, visited, to_visit, stats,
               all_pdf_links, url, missed, rawDir, returned, attempts,
               sleepPending, failedSeed, failedRun>>

VARIABLES
  faissFile,      \* VECTORDB_DIR/metu_faiss_index.faiss: Absent or File(vectors)
  pklFile,        \* VECTORDB_DIR/metu_faiss_index.pkl: Absent or File(chunks)
  ipc,            \* position in save_local: "idle", or "save_pkl" after the
                  \* .faiss file is written and before the .pkl file is
  saving,         \* the store save_local is writing, None when idle
  vs,             \* the FAISS object the caller holds, None when it holds none
  call,           \* the call of the embeddings module made last
  outcome,        \* how that call ended: returned, raised, running, crashed
  writers         \* the add_documents_to_store calls of concurrent callers:
                  \* caller -> its position and locals; None when the module
                  \* has one caller

indexVars == <<faissFile, pklFile, ipc, saving, vs, call, outcome, writers>>

VARIABLES
  pdfFiles,       \* names of the *.pdf files in RAW_DIR
  ppc,            \* position in pdf_processor: "idle", "all" inside the loop
                  \* of process_all_pdfs, "local" inside process_local_pdfs
  pdfQueue,       \* the URLs / files the running loop has still to process
  pdfStats,       \* the stats dictionary of the running or last call
  pdfCall,        \* the call of pdf_processor made last
  pdfOutcome,     \* how that call ended: returned, raised, running
  downloadLog,    \* the URLs download_pdf was called with in that call, in order
  extractLog,     \* the files extract_text_from_pdf was called with in that call
  unchanged       \* RAW_DIR is as the last process_local_pdfs call left it on
                  \* returning

pdfVars == <<pdfFiles, ppc, pdfQueue, pdfStats, pdfCall, pdfOutcome, downloadLog,
             extractLog, unchanged>>

VARIABLES
  ingest          \* the run_full_ingestion call: its flags, the step it is in,
                  \* its locals; None when no such call is made

vars == <<crawlVars, indexVars, pdfVars, ingest>>

base_url == base_urls[seedIdx]

\* a file that does not exist, and a file holding d
Absent == <<>>
File(d) == <<d>>

\* the embeddings module is not in a call and nothing is persisted
NoIndexerCall ==
  /\ faissFile = Absent
  /\ pklFile = Absent
  /\ ipc = "idle"
  /\ saving = None
  /\ vs = None
  /\ call = None
  /\ outcome = None
  /\ writers = None

\* pdf_processor is not in a call and RAW_DIR holds no PDF file
NoPdfCall ==
  /\ pdfFiles = {}
  /\ ppc = "idle"
  /\ pdfQueue = <<>>
  /\ pdfStats = None
  /\ pdfCall = None
  /\ pdfOutcome = None
  /\ downloadLog = <<>>
  /\ extractLog = <<>>
  /\ unchanged = FALSE

\* the loop condition with an off-by-one budget test
LoopCondOffByOne(q, v, budget) == q # <<>> /\ Cardinality(v) <= budget

\* "while to_visit and len(visited) < max_pages"
LoopCond(q, v, budget) == q # <<>> /\ Cardinality(v) < budget

\* path test of the enqueue loop, scraper.py:190-197
UnderBasePath(link, seed) ==
  LET base_path == RStrip(urlparse(seed).path, "/")
      link_path == urlparse(link).path
  IN IF base_path # <<>> /\ StartsWith(link_path, base_path) THEN TRUE
     ELSE IF base_path = <<>> THEN TRUE
     ELSE FALSE

RECURSIVE Enqueue(_, _, _, _)
\* an enqueue loop without the two membership tests
EnqueueAll(q, links, v, seed) ==
  q \o SelectSeq(links, LAMBDA link : UnderBasePath(link, seed))

\* an enqueue loop that puts the new links in front of the frontier
EnqueueFront(q, links, v, seed) ==
  SelectSeq(links, LAMBDA link : /\ link \notin v
                                 /\ link \notin Range(q)
                                 /\ UnderBasePath(link, seed)) \o q

\* "for link in page_links: if link not in visited and link not in to_visit"
Enqueue(q, links, v, seed) ==
  IF links = <<>> THEN q
  ELSE LET link == Head(links)
           q2 == IF link \notin v /\ link \notin Range(q) /\ UnderBasePath(link, seed)
                 THEN Append(q, link) ELSE q
       IN Enqueue(q2, Tail(links), v, seed)

\* a failure that is not counted
CountFailureNot(st) == st

\* a failure that is counted as a scraped page as well
CountFailureAsScraped(st) ==
  [st EXCEPT !.pages_failed = @ + 1, !.pages_scraped = @ + 1]

\* "stats['pages_failed'] += 1"
CountFailure(st) == [st EXCEPT !.pages_failed = @ + 1]

\* save_scraped_content
SaveScrapedContent(dir, u) ==
  [f \in DOMAIN dir \cup {PageFileName(u)} |->
     IF f = PageFileName(u) THEN u ELSE dir[f]]

\* the pages of a site none of whose pages has more than MinTextLen
\* characters of text
ShortPages == {p \in [text : {0, MinTextLen}, anchors : AnchorSets] : TRUE}

Responses(u) ==
  IF env = "scenario" THEN ScenarioPages(u)
  ELSE IF env = "short" THEN ShortPages \cup {None}
  ELSE Pages \cup {None}

\* run_scraper is called on a site of one of the kinds envs
InitRun(envs) ==
  /\ env \in envs
  /\ base_urls \in IF env = "scenario" THEN {<<Dept>>} ELSE SeedLists
  /\ max_pages \in IF env = "scenario" THEN {ScenarioMaxPages}
                  ELSE IF Len(base_urls) = 1 THEN 0..MaxBudget
                  ELSE 0..MultiSeedBudget
  /\ pc = "start"
  /\ seedIdx = 0
  /\ visited = {}
  /\ to_visit = <<>>
  /\ stats = [pages_scraped |-> 0, pages_failed |-> 0, pdfs_found |-> 0]
  /\ all_pdf_links = <<>>
  /\ url = NoUrl
  /\ missed = {}
  /\ rawDir = <<>>
  /\ returned = None
  /\ attempts = 0
  /\ sleepPending = FALSE
  /\ failedSeed = {}
  /\ failedRun = {}
  /\ NoIndexerCall
  /\ NoPdfCall
  /\ ingest = None

InitCrawl == InitRun({"free", "scenario"})

\* the for loop is at its head: at the start of run_scraper, or when the
\* while loop of the previous seed is over
AtForHead == pc = "start" \/ (pc = "while" /\ ~LoopCond(to_visit, visited, max_pages))

\* a for loop whose visited set is created once, before the loop
StartSeedSharedVisited ==
  /\ AtForHead
  /\ seedIdx < Len(base_urls)
  /\ seedIdx' = seedIdx + 1
  /\ to_visit' = <<base_urls[seedIdx + 1]>>
  /\ attempts' = 0
  /\ failedSeed' = {}
  /\ pc' = "while"
  /\ missed' = {}
  /\ UNCHANGED <<base_urls, max_pages, env, stats, all_pdf_links, url, visited,
                 rawDir, returned, sleepPending, failedRun>>
  /\ UNCHANGED <<indexVars, pdfVars, ingest>>

\* "for base_url in base_urls": the next seed starts with a fresh frontier
StartSeed ==
  /\ AtForHead
  /\ seedIdx < Len(base_urls)
  /\ seedIdx' = seedIdx + 1
  /\ visited' = {}
  /\ to_visit' = <<base_urls[seedIdx + 1]>>
  /\ attempts' = 0
  /\ failedSeed' = {}
  /\ pc' = "while"
  /\ missed' = {}
  /\ UNCHANGED <<base_urls, max_pages, env, stats, all_pdf_links, url,
                 rawDir, returned, sleepPending, failedRun>>
  /\ UNCHANGED <<indexVars, pdfVars, ingest>>

\* an already visited URL is popped and dropped
SkipVisited ==
  /\ url' = Head(to_visit)
  /\ to_visit' = Tail(to_visit)
  /\ UNCHANGED <<base_urls, max_pages, env, pc, seedIdx, visited, stats,
                 all_pdf_links, missed, rawDir, returned, attempts,
                 sleepPending, failedSeed, failedRun>>
  /\ UNCHANGED <<indexVars, pdfVars, ingest>>

\* one iteration of the while loop whose request fails
ScrapeFail ==
  /\ pc = "while"
  /\ LoopCond(to_visit, visited, max_pages)
  /\ IF Head(to_visit) \in visited THEN SkipVisited
     ELSE /\ None \in Responses(Head(to_visit))
          /\ url' = Head(to_visit)
          /\ to_visit' = Tail(to_visit)
          /\ visited' = visited \cup {url'}
          /\ attempts' = attempts + 1
          /\ scrape_page(url', None) = None
          /\ stats' = CountFailure(stats)
          /\ sleepPending' = TRUE
          /\ failedSeed' = failedSeed \cup {url'}
          /\ failedRun' = failedRun \cup {url'}
          /\ missed' = {}
          /\ UNCHANGED <<base_urls, max_pages, env, pc, seedIdx, all_pdf_links,
                         rawDir, returned>>
          /\ UNCHANGED <<indexVars, pdfVars, ingest>>

\* a page counted as saved at the threshold already
KeepTextAtThreshold(text) == text # 0 /\ text >= MinTextLen

\* "if text and len(text) > 100", text given by its length
KeepText(text) == text # 0 /\ text > MinTextLen

\* the rest of an iteration of the while loop, from the call of scrape_page
\* on, when the request is answered with response
ScrapeOkWith(response) ==
  \E r \in {scrape_page(Head(to_visit), response)} :
  LET keep == KeepText(r.text)
      in_scope == InScopeLinks(response.anchors, Head(to_visit), base_url)
      pdfs == CHOOSE l \in Perms(r.pdf_links) : TRUE
  IN /\ url' = Head(to_visit)
     /\ visited' = visited \cup {url'}
     /\ attempts' = attempts + 1
     /\ rawDir' = IF keep THEN SaveScrapedContent(rawDir, url') ELSE rawDir
     /\ all_pdf_links' = all_pdf_links \o pdfs
     /\ stats' = [stats EXCEPT
                    !.pages_scraped = IF keep THEN @ + 1 ELSE @,
                    !.pdfs_found = @ + Cardinality(r.pdf_links)]
     /\ to_visit' \in {Enqueue(Tail(to_visit), page_links, visited', base_url) :
                        page_links \in Perms(r.page_links)}
     /\ missed' = in_scope \ (visited' \cup Range(to_visit'))
     /\ sleepPending' = FALSE
     /\ UNCHANGED <<base_urls, max_pages, env, pc, seedIdx, returned,
                    failedSeed, failedRun>>
     /\ UNCHANGED <<indexVars, pdfVars, ingest>>

\* one iteration of the while loop whose request succeeds
ScrapeOk ==
  /\ pc = "while"
  /\ LoopCond(to_visit, visited, max_pages)
  /\ IF Head(to_visit) \in visited THEN SkipVisited
     ELSE \E response \in Responses(Head(to_visit)) \ {None} :
            ScrapeOkWith(response)

\* the for loop is over: duplicates removed from the PDF list, dict returned;
\* the locals of the call are gone
Return ==
  /\ AtForHead
  /\ seedIdx = Len(base_urls)
  /\ pc' = "done"
  /\ returned' = [stats |-> stats, pdf_links |-> Range(all_pdf_links)]
  /\ visited' = {}
  /\ to_visit' = <<>>
  /\ url' = NoUrl
  /\ missed' = {}
  /\ UNCHANGED <<base_urls, max_pages, env, seedIdx, stats, all_pdf_links, rawDir,
                 attempts, sleepPending, failedSeed, failedRun>>
  /\ UNCHANGED <<indexVars, pdfVars, ingest>>

NextCrawl == StartSeed \/ ScrapeFail \/ ScrapeOk \/ Return

Spec == InitCrawl /\ [][NextCrawl]_vars


(***************************************************************************)
(* Claims about the crawler                                                *)
(***************************************************************************)
\* a step of run_scraper that calls scrape_page
FetchStep == attempts' = attempts + 1

\* a step of run_scraper whose call of scrape_page returns None
FailStep == FetchStep /\ failedSeed' = failedSeed \cup {url'} /\ url' \notin failedSeed

\* an upper bound of the number of steps run_scraper still takes: one step to
\* return, and for every seed one step to start its crawl and one step for
\* each page of its budget
StepsLeft ==
  IF pc = "done" THEN 0
  ELSE 1 + (Len(base_urls) - seedIdx) * (max_pages + 1)
         + (IF pc = "while" THEN max_pages - attempts ELSE 0)

\* C1: the crawl of a seed makes at most max_pages fetch attempts, and
\* run_scraper terminates whatever the site answers: every step lowers
\* StepsLeft, which is never negative, so no run takes more than
\* 1 + Len(base_urls) * (max_pages + 1) steps.
C1_Terminates ==
  /\ [](attempts <= max_pages /\ StepsLeft >= 0)
  /\ [][StepsLeft' < StepsLeft]_vars

\* the budget ends the crawl of a seed while its frontier is not empty
C1_Witness == pc = "while" /\ max_pages > 0 /\ attempts = max_pages /\ to_visit # <<>>

\* C2: two URLs that differ only by their fragment are one frontier entry:
\* the visited set and the frontier never hold both.
C2_FragmentDedup ==
  \A a, b \in visited \cup Range(to_visit) :
     StripFragment(a) = StripFragment(b) => a = b

\* host of u matches the domain of the current seed (substring match)
InSeedDomain(u) == IsInfix(urlparse(base_url).netloc, urlparse(u).netloc)

\* path of u starts with the path prefix of the current seed
UnderSeedPrefix(u) ==
  StartsWith(urlparse(u).path, RStrip(urlparse(base_url).path, "/"))

\* C3: every URL of the frontier is in the seed's domain and under the seed's
\* path prefix, and every link of the page scraped last that is in the seed's
\* domain and under the prefix is visited or queued when the iteration ends.
C3_Scope ==
  pc = "while" =>
    /\ \A u \in Range(to_visit) : InSeedDomain(u) /\ UnderSeedPrefix(u)
    /\ missed = {}

\* what a failed fetch does: one more failed page, nothing saved, the rest of
\* the frontier is kept and the loop goes on
FailureEffect ==
  /\ stats'.pages_failed = stats.pages_failed + 1
  /\ stats'.pages_scraped = stats.pages_scraped
  /\ rawDir' = rawDir
  /\ to_visit' = Tail(to_visit)
  /\ pc' = "while"

\* C4 as claimed: a failed fetch counts one failure, saves nothing, the crawl
\* goes on, and the failed URL is not fetched again in the same run, whatever
\* the seed.
C4_NoRetryInRun ==
  [][(FetchStep => url' \notin failedRun) /\ (FailStep => FailureEffect)]_vars

\* C4 as amended: a failed fetch counts one failure, saves nothing, the crawl
\* goes on, and the failed URL is not fetched again in the crawl of the same
\* seed.
C4_NoRetryInSeed ==
  [][(FetchStep => url' \notin failedSeed) /\ (FailStep => FailureEffect)]_vars

\* after a failed fetch the crawl of the seed fetched the next frontier entry
C4_Witness ==
  /\ pc = "while"
  /\ failedSeed # {}
  /\ url \notin failedSeed
  /\ url # base_url
  /\ stats.pages_failed = 1

\* C5: no fetch attempt is made while the sleep that follows the previous
\* fetch attempt is still due.
C5_Politeness == [][FetchStep => ~sleepPending]_vars

\* C6: in the end-to-end scenario run_scraper saves two text artifacts,
\* returns one PDF link and reports no failure.
C6_Scenario ==
  (env = "scenario" /\ pc = "done") =>
    /\ returned.stats.pages_scraped = 2
    /\ Cardinality(DOMAIN rawDir) = 2
    /\ returned.pdf_links = {DocPdf}
    /\ returned.stats.pages_failed = 0

\* C20: within the crawl of one seed the frontier holds no URL twice and no
\* visited URL, so the URL popped next is never a visited one and a link
\* that is visited or queued is never appended; every URL popped so far was
\* popped once and is in the visited set, which has lost none: the set has as
\* many elements as URLs were popped.
C20_NoRepeat ==
  pc = "while" =>
    /\ \A i, j \in 1..Len(to_visit) : to_visit[i] = to_visit[j] => i = j
    /\ Range(to_visit) \cap visited = {}
    /\ Cardinality(visited) = attempts
    /\ attempts > 0 => url \in visited
    /\ failedSeed \subseteq visited

\* two pages of a seed are fetched and a PDF link is left in the frontier
C20_Witness ==
  /\ pc = "while"
  /\ attempts = 2
  /\ visited = {Dept, Page2}
  /\ to_visit = <<DocPdf>>


(***************************************************************************)
(* The vector store: src/embeddings.py                                     *)
(***************************************************************************)
MaxVectors == 6         \* largest number of vectors of an index
MaxK == 2               \* largest k of a search
CHUNK_SIZE == 2000      \* config.py:47
CHUNK_OVERLAP == 400    \* config.py:48

FAISS_INDEX_NAME == "metu_faiss_index"

\* the pages whose text artifacts the content area may hold
DocUrls == {Dept, Page2}

\* length of the text artifact of a page: at the chunk size, above it
ArtifactLen(u) == IF u = Page2 THEN CHUNK_SIZE + 1 ELSE CHUNK_SIZE

\* the content area RAW_DIR holding the artifacts of the pages S
RawDirOf(S) ==
  [f \in {PageFileName(u) : u \in S} |-> CHOOSE u \in S : PageFileName(u) = f]

\* load_documents: the .txt files of RAW_DIR, in the order the loader lists them
load_documents(dir, order) == order

\* number of chunks the splitter cuts a text of n characters into: windows of
\* CHUNK_SIZE characters that overlap by CHUNK_OVERLAP
SplitCount(n) ==
  IF n <= CHUNK_SIZE THEN 1
  ELSE 1 + ((n - CHUNK_SIZE) + (CHUNK_SIZE - CHUNK_OVERLAP) - 1)
             \div (CHUNK_SIZE - CHUNK_OVERLAP)

RECURSIVE chunk_documents(_, _)
\* chunk_documents: the chunks of the documents, document by document; a
\* chunk carries the source of its document
chunk_documents(dir, documents) ==
  IF documents = <<>> THEN <<>>
  ELSE LET f == Head(documents)
       IN [i \in 1..SplitCount(ArtifactLen(dir[f])) |-> [source |-> f, part |-> i]]
          \o chunk_documents(dir, Tail(documents))

\* the embedding of a chunk: a function of the chunk
Embed(chunk) == [vector_of |-> chunk]

\* FAISS.from_documents: one vector per chunk, in the order of the chunks
from_documents(chunks) ==
  [index |-> [i \in 1..Len(chunks) |-> Embed(chunks[i])], docstore |-> chunks]

\* an add_documents that leaves out the chunks the store holds already
add_documentsDedup(store, chunks) ==
  LET fresh == SelectSeq(chunks, LAMBDA c : c \notin Range(store.docstore))
  IN [index |-> store.index \o [i \in 1..Len(fresh) |-> Embed(fresh[i])],
      docstore |-> store.docstore \o fresh]

\* vector_store.add_documents
add_documents(store, chunks) ==
  [index |-> store.index \o [i \in 1..Len(chunks) |-> Embed(chunks[i])],
   docstore |-> store.docstore \o chunks]

\* the exception FAISS.load_local raises for the files on disk, "" when it
\* raises none: the index file is read first, then the pickle
LoadError(faiss, pkl) ==
  IF faiss = Absent THEN "RuntimeError"
  ELSE IF pkl = Absent THEN "FileNotFoundError"
  ELSE ""

\* load_vector_store, when FAISS.load_local raises nothing
load_vector_store(faiss, pkl) == [index |-> faiss[1], docstore |-> pkl[1]]

\* get_or_create_vector_store rebuilding whatever is on disk
NeedsRebuildAlways(faiss_exists, force_recreate) == TRUE

\* "if faiss_exists and not force_recreate: return load_vector_store()"
NeedsRebuild(faiss_exists, force_recreate) == ~(faiss_exists /\ ~force_recreate)

\* get_or_create_vector_store without its test of the document list
NoDocumentsNever(documents) == FALSE

\* "if not documents: raise ValueError"
NoDocuments(documents) == documents = <<>>

\* vector_store.similarity_search: the k nearest vectors, fewer when the index
\* is smaller; a vector without an entry in the docstore raises KeyError
similarity_search(store, k) ==
  LET n == IF k <= Len(store.index) THEN k ELSE Len(store.index)
  IN IF n > Len(store.docstore) THEN [kind |-> "raised", exc |-> "KeyError", value |-> None]
     ELSE [kind |-> "returned", exc |-> "", value |-> SubSeq(store.docstore, 1, n)]

Raised(e) == [kind |-> "raised", exc |-> e, value |-> None]
Returned(v) == [kind |-> "returned", exc |-> "", value |-> v]
Running == [kind |-> "running", exc |-> "", value |-> None]

crawlIdle == <<base_urls, max_pages, env, pc, seedIdx, visited, to_visit, stats,
               all_pdf_links, url, missed, returned, attempts, sleepPending,
               failedSeed, failedRun>>

\* the state the indexer is started in: run_scraper is not running, the
\* content area holds some artifacts, and either nothing is persisted or the
\* index of some earlier content area is
InitIndex ==
  /\ base_urls = <<>>
  /\ max_pages = 0
  /\ env = "free"
  /\ pc = "done"
  /\ seedIdx = 0
  /\ visited = {}
  /\ to_visit = <<>>
  /\ stats = [pages_scraped |-> 0, pages_failed |-> 0, pdfs_found |-> 0]
  /\ all_pdf_links = <<>>
  /\ url = NoUrl
  /\ missed = {}
  /\ returned = None
  /\ attempts = 0
  /\ sleepPending = FALSE
  /\ failedSeed = {}
  /\ failedRun = {}
  /\ \E S \in SUBSET DocUrls : rawDir = RawDirOf(S)
  /\ \E S \in SUBSET DocUrls : \E order \in Perms(DOMAIN RawDirOf(S)) :
       LET store == from_documents(chunk_documents(RawDirOf(S), order))
       IN /\ faissFile = IF S = {} THEN Absent ELSE File(store.index)
          /\ pklFile = IF S = {} THEN Absent ELSE File(store.docstore)
  /\ ipc = "idle"
  /\ saving = None
  /\ vs = None
  /\ call = None
  /\ outcome = None
  /\ writers = None
  /\ NoPdfCall
  /\ ingest = None

\* the scraper or the PDF processor saves an artifact between two calls
WriteArtifact ==
  /\ ipc = "idle"
  /\ \E u \in DocUrls :
       /\ PageFileName(u) \notin DOMAIN rawDir
       /\ rawDir' = SaveScrapedContent(rawDir, u)
  /\ UNCHANGED <<crawlIdle, indexVars, pdfVars, ingest>>

\* get_or_create_vector_store, the index file exists and no rebuild is forced
GetOrCreateLoad ==
  /\ ipc = "idle"
  /\ \E force_recreate \in BOOLEAN :
       /\ ~NeedsRebuild(faissFile # Absent, force_recreate)
       /\ call' = [op |-> "get_or_create", force |-> force_recreate]
       /\ IF LoadError(faissFile, pklFile) # ""
          THEN /\ outcome' = Raised(LoadError(faissFile, pklFile))
               /\ vs' = vs
          ELSE /\ outcome' = Returned(load_vector_store(faissFile, pklFile))
               /\ vs' = load_vector_store(faissFile, pklFile)
  /\ UNCHANGED <<pdfVars, ingest, crawlVars, writers, faissFile, pklFile, ipc, saving>>

\* get_or_create_vector_store, a rebuild is required and there is no document
GetOrCreateNoDocs ==
  /\ ipc = "idle"
  /\ \E force_recreate \in BOOLEAN : \E order \in Perms(DOMAIN rawDir) :
       /\ NeedsRebuild(faissFile # Absent, force_recreate)
       /\ NoDocuments(load_documents(rawDir, order))
       /\ call' = [op |-> "get_or_create", force |-> force_recreate]
       /\ outcome' = Raised("ValueError")
  /\ UNCHANGED <<pdfVars, ingest, crawlVars, writers, faissFile, pklFile, ipc, saving, vs>>

\* get_or_create_vector_store, a rebuild is required: the documents are
\* chunked and embedded, and save_local writes the .faiss file
GetOrCreateBuild ==
  /\ ipc = "idle"
  /\ \E force_recreate \in BOOLEAN : \E order \in Perms(DOMAIN rawDir) :
       LET documents == load_documents(rawDir, order)
           store == from_documents(chunk_documents(rawDir, documents))
       IN /\ NeedsRebuild(faissFile # Absent, force_recreate)
          /\ ~NoDocuments(documents)
          /\ Len(store.index) <= MaxVectors
          /\ call' = [op |-> "get_or_create", force |-> force_recreate]
          /\ outcome' = Running
          /\ saving' = store
          /\ faissFile' = File(store.index)
          /\ ipc' = "save_pkl"
  /\ UNCHANGED <<pdfVars, ingest, crawlVars, writers, pklFile, vs>>

\* add_documents_to_store whose load_vector_store raises
AddDocumentsLoadFails ==
  /\ ipc = "idle"
  /\ LoadError(faissFile, pklFile) # ""
  /\ \E f \in DOMAIN rawDir :
       /\ call' = [op |-> "add_documents", docs |-> <<f>>, handle |-> FALSE]
       /\ outcome' = Raised(LoadError(faissFile, pklFile))
  /\ UNCHANGED <<pdfVars, ingest, crawlVars, writers, faissFile, pklFile, ipc, saving, vs>>

\* add_documents_to_store: the new chunks are added to the store passed in or
\* loaded, and save_local writes the .faiss file
AddDocuments ==
  /\ ipc = "idle"
  /\ \E f \in DOMAIN rawDir : \E handle \in BOOLEAN :
       /\ IF handle THEN vs # None ELSE LoadError(faissFile, pklFile) = ""
       /\ LET vector_store == IF handle THEN vs
                              ELSE load_vector_store(faissFile, pklFile)
              store == add_documents(vector_store, chunk_documents(rawDir, <<f>>))
          IN /\ Len(store.index) <= MaxVectors
             /\ Len(store.docstore) <= MaxVectors
             /\ call' = [op |-> "add_documents", docs |-> <<f>>, handle |-> handle]
             /\ outcome' = Running
             /\ saving' = store
             /\ faissFile' = File(store.index)
             /\ ipc' = "save_pkl"
  /\ UNCHANGED <<pdfVars, ingest, crawlVars, writers, pklFile, vs>>

\* save_local writes the .pkl file and the call returns the store
SavePkl ==
  /\ ipc = "save_pkl"
  /\ pklFile' = File(saving.docstore)
  /\ outcome' = Returned(saving)
  /\ vs' = saving
  /\ saving' = None
  /\ ipc' = "idle"
  /\ UNCHANGED <<pdfVars, ingest, crawlVars, writers, faissFile, call>>

\* the process dies between the two writes of save_local
Crash ==
  /\ ipc = "save_pkl"
  /\ outcome' = [kind |-> "crashed", exc |-> "", value |-> None]
  /\ vs' = None
  /\ saving' = None
  /\ ipc' = "idle"
  /\ UNCHANGED <<pdfVars, ingest, crawlVars, writers, faissFile, pklFile, call>>

\* search_similar(query, k, vector_store)
SearchSimilar ==
  /\ ipc = "idle"
  /\ \E k \in 1..MaxK : \E handle \in BOOLEAN :
       /\ handle => vs # None
       /\ call' = [op |-> "search_similar", k |-> k, handle |-> handle]
       /\ outcome' =
            IF handle THEN similarity_search(vs, k)
            ELSE IF LoadError(faissFile, pklFile) # ""
                 THEN Raised(LoadError(faissFile, pklFile))
                 ELSE similarity_search(load_vector_store(faissFile, pklFile), k)
  /\ UNCHANGED <<pdfVars, ingest, crawlVars, writers, faissFile, pklFile, ipc, saving, vs>>

VECTORDB_DIR == "data/vectordb"

StatsMessage == "Vector store may not exist yet."

\* get_collection_stats without the test for the index file
get_collection_statsNoExistsTest(faiss, pkl) ==
  IF LoadError(faiss, pkl) # ""
  THEN [error |-> LoadError(faiss, pkl), message |-> StatsMessage]
  ELSE [total_documents |-> Len(load_vector_store(faiss, pkl).index),
        index_name |-> FAISS_INDEX_NAME,
        persist_directory |-> VECTORDB_DIR]

\* get_collection_stats: the dictionary it returns for the files on disk
get_collection_stats(faiss, pkl) ==
  IF faiss = Absent
  THEN [error |-> "Vector store not found", message |-> StatsMessage]
  ELSE IF LoadError(faiss, pkl) # ""
       THEN [error |-> LoadError(faiss, pkl), message |-> StatsMessage]
       ELSE [total_documents |-> Len(load_vector_store(faiss, pkl).index),
             index_name |-> FAISS_INDEX_NAME,
             persist_directory |-> VECTORDB_DIR]

\* a call of get_collection_stats
GetCollectionStats ==
  /\ ipc = "idle"
  /\ call' = [op |-> "get_collection_stats"]
  /\ outcome' = Returned(get_collection_stats(faissFile, pklFile))
  /\ UNCHANGED <<pdfVars, ingest, crawlVars, writers, faissFile, pklFile, ipc, saving, vs>>

NextIndex ==
  \/ WriteArtifact
  \/ GetOrCreateLoad
  \/ GetOrCreateNoDocs
  \/ GetOrCreateBuild
  \/ AddDocumentsLoadFails
  \/ AddDocuments
  \/ SavePkl
  \/ SearchSimilar
  \/ GetCollectionStats

\* the indexer when no call is interrupted
SpecIndex == InitIndex /\ [][NextIndex]_vars

NextCrash == NextIndex \/ Crash

\* the indexer when the process may die inside save_local
SpecCrash == InitIndex /\ [][NextCrash]_vars


(***************************************************************************)
(* Claims about the vector store                                           *)
(***************************************************************************)
\* the vectors of an index are the embeddings of the chunks of its docstore
Consistent(index, docstore) ==
  index = [i \in 1..Len(docstore) |-> Embed(docstore[i])]

\* the chunks of all artifacts of a content area
AllChunks(dir) ==
  UNION {{[source |-> f, part |-> i] : i \in 1..SplitCount(ArtifactLen(dir[f]))} :
           f \in DOMAIN dir}

\* store indexes every chunk of the content area once, and nothing else
IsFreshIndex(store, dir) ==
  /\ Consistent(store.index, store.docstore)
  /\ Range(store.docstore) = AllChunks(dir)
  /\ Len(store.docstore) = Cardinality(AllChunks(dir))

\* a step that is a call of op
CallStep(op) == ipc = "idle" /\ indexVars' # indexVars /\ call'.op = op

\* C7: whenever the .faiss file is on disk, the .pkl file is on disk too and
\* holds the chunks the vectors of the .faiss file were computed from.
C7_NoHalfWrittenIndex ==
  faissFile # Absent =>
    /\ pklFile # Absent
    /\ Consistent(faissFile[1], pklFile[1])

\* get_or_create_vector_store is called, the index file exists and
\* force_recreate is false
LoadCase == CallStep("get_or_create") /\ faissFile # Absent /\ ~call'.force

\* get_or_create_vector_store is called in any other case
RebuildCase == CallStep("get_or_create") /\ ~(faissFile # Absent /\ ~call'.force)

\* the persisted index is loaded and returned, the files are left as they are
Loads ==
  /\ outcome' = Returned(load_vector_store(faissFile, pklFile))
  /\ faissFile' = faissFile
  /\ pklFile' = pklFile
  /\ ipc' = "idle"

\* an index of all artifacts of the content area is built and save_local
\* has started to write it
Builds == ipc' = "save_pkl" /\ IsFreshIndex(saving', rawDir)

\* save_local ends a call of get_or_create_vector_store: the files hold the
\* index built, which is returned
Persists ==
  (ipc = "save_pkl" /\ call.op = "get_or_create") =>
    /\ ipc' = "idle"
    /\ outcome' = Returned(saving)
    /\ faissFile' = File(saving.index)
    /\ pklFile' = File(saving.docstore)
    /\ IsFreshIndex(saving, rawDir')

\* C8 as claimed: get_or_create_vector_store loads the persisted index and
\* leaves it unchanged when the index file exists and force_recreate is
\* false; in every other case it builds an index of all artifacts of the
\* content area, persists it and returns it.
C8_LoadOrBuild ==
  [][(LoadCase => Loads) /\ (RebuildCase => Builds) /\ Persists]_vars

\* C8 as amended: as C8, the second case being every other case in which the
\* content area holds at least one artifact.
C8_LoadOrBuildIfDocuments ==
  [][/\ LoadCase => Loads
     /\ (RebuildCase /\ DOMAIN rawDir # {}) => Builds
     /\ Persists]_vars

\* a forced rebuild returned the index of the two artifacts of the content
\* area, which is on disk
C8_Witness ==
  /\ ipc = "idle"
  /\ call # None
  /\ call.op = "get_or_create"
  /\ call.force
  /\ outcome.kind = "returned"
  /\ Cardinality(DOMAIN rawDir) = 2
  /\ faissFile = File(outcome.value.index)
  /\ pklFile = File(outcome.value.docstore)

\* C9: a call of get_or_create_vector_store that has to rebuild (no index
\* file, or force_recreate) with an empty content area raises ValueError and
\* leaves the .faiss and .pkl files as they are; no other call raises
\* ValueError.
C9_NoDocumentsError ==
  /\ []((outcome # None /\ outcome.exc = "ValueError") => call.op = "get_or_create")
  /\ [][(CallStep("get_or_create") /\ (faissFile = Absent \/ call'.force)
           /\ DOMAIN rawDir = {})
        => /\ outcome' = Raised("ValueError")
           /\ faissFile' = faissFile
           /\ pklFile' = pklFile
           /\ ipc' = "idle"]_vars

\* a forced rebuild with an empty content area raised ValueError and the
\* index persisted before is still on disk
C9_Witness ==
  /\ call # None
  /\ call.op = "get_or_create"
  /\ call.force
  /\ outcome = Raised("ValueError")
  /\ DOMAIN rawDir = {}
  /\ faissFile # Absent
  /\ pklFile # Absent

\* C10: with no index on disk, search_similar called without a vector_store
\* and get_collection_stats return a value and raise nothing.
C10_NotReadyResult ==
  (/\ ipc = "idle"
   /\ call # None
   /\ call.op \in {"search_similar", "get_collection_stats"}
   /\ (call.op = "search_similar" => ~call.handle)
   /\ faissFile = Absent
   /\ pklFile = Absent)
  => outcome.kind = "returned"

\* the last call was get_collection_stats and the disk is as the call saw it
StatsReturned ==
  /\ ipc = "idle"
  /\ call # None
  /\ call.op = "get_collection_stats"

\* C11: get_collection_stats raises nothing; with no index on disk it returns
\* the dictionary whose 'error' is 'Vector store not found'; with an index on
\* disk it returns the number of vectors of that index, the index name and
\* the directory the index is stored in.
C11_Stats ==
  StatsReturned =>
    /\ outcome.kind = "returned"
    /\ IF faissFile = Absent
       THEN /\ DOMAIN outcome.value = {"error", "message"}
            /\ outcome.value.error = "Vector store not found"
       ELSE /\ DOMAIN outcome.value =
                 {"total_documents", "index_name", "persist_directory"}
            /\ outcome.value.total_documents = Len(faissFile[1])
            /\ outcome.value.index_name = FAISS_INDEX_NAME
            /\ outcome.value.persist_directory = VECTORDB_DIR

\* get_collection_stats has answered once without an index and the index
\* built since holds two vectors or more
C11_Witness ==
  /\ StatsReturned
  /\ faissFile # Absent
  /\ Len(faissFile[1]) >= 2
  /\ outcome.value.total_documents = Len(faissFile[1])

\* get_collection_stats has answered on a directory without an index
C11_WitnessNoIndex ==
  /\ StatsReturned
  /\ faissFile = Absent
  /\ outcome.value.error = "Vector store not found"

(***************************************************************************)
(* The PDF pipeline: pdf_processor.py                                      *)
(***************************************************************************)
\* longest list of URLs process_all_pdfs is called with
MaxPdfUrls == 2

\* a PDF of scanned pages, and a PDF served under a path without extension
ScanPdf == Dept \o <<"/", "scan", ".pdf">>
Guide == Host \o <<"/", "files", "/", "guide">>

\* the PDF URLs of the site
PdfUrls == {DocPdf, ScanPdf, Guide}

\* the PDF files somebody may copy into RAW_DIR by hand
LocalPdfNames == {<<"manual", ".pdf">>, <<"scan", ".pdf">>}

RECURSIVE ListsUpTo(_, _)
\* the lists of at most n elements of S
ListsUpTo(S, n) ==
  IF n = 0 THEN {<<>>}
  ELSE ListsUpTo(S, n - 1) \cup
       {<<x>> \o l : x \in S, l \in {m \in ListsUpTo(S, n - 1) : Len(m) = n - 1}}

\* Path(p).name: what follows the last "/"
PathName(p) ==
  LET slashes == {i \in 1..Len(p) : p[i] = "/"}
      last == IF slashes = {} THEN 0
              ELSE CHOOSE i \in slashes : \A j \in slashes : j <= i
  IN SubSeq(p, last + 1, Len(p))

\* Path(p).stem: the name without its last suffix
PathStem(p) ==
  LET name == PathName(p)
  IN IF Len(name) > 1 /\ name[Len(name)] \in {".pdf", ".PDF", ".png", ".PNG", ".txt"}
     THEN SubSeq(name, 1, Len(name) - 1)
     ELSE name

\* download_pdf: name of the file the body of u is saved in
PdfFileName(u) ==
  LET name == unquote(PathName(urlparse(u).path))
      filename == IF LowerEndsWithAny(name, {".pdf"}) THEN name
                  ELSE name \o <<".pdf">>
  IN [i \in 1..Len(filename) |-> IF SafeTok(filename[i]) THEN filename[i] ELSE "_"]

\* name of the text artifact of a PDF file
PdfTextName(pdf_path) == PathStem(pdf_path) \o <<".txt">>

\* extract_text_from_pdf: length of the text of a PDF file; scanned pages
\* carry no text, and a file that cannot be parsed gives "" as well
extract_text_from_pdf(pdf_path) ==
  IF "scan" \in Range(pdf_path) THEN 0 ELSE CHUNK_SIZE

\* text_path.write_text(text): the artifact holds the text of pdf_path
WriteText(dir, pdf_path) ==
  [f \in DOMAIN dir \cup {PdfTextName(pdf_path)} |->
     IF f = PdfTextName(pdf_path) THEN pdf_path ELSE dir[f]]

\* the state the PDF pipeline is started in: no other module is in a call,
\* RAW_DIR is empty
InitPdf ==
  /\ base_urls = <<>>
  /\ max_pages = 0
  /\ env = "free"
  /\ pc = "done"
  /\ seedIdx = 0
  /\ visited = {}
  /\ to_visit = <<>>
  /\ stats = [pages_scraped |-> 0, pages_failed |-> 0, pdfs_found |-> 0]
  /\ all_pdf_links = <<>>
  /\ url = NoUrl
  /\ missed = {}
  /\ returned = None
  /\ attempts = 0
  /\ sleepPending = FALSE
  /\ failedSeed = {}
  /\ failedRun = {}
  /\ rawDir = <<>>
  /\ NoIndexerCall
  /\ NoPdfCall
  /\ ingest = None

\* somebody copies a PDF file into RAW_DIR
PlacePdf ==
  /\ ppc = "idle"
  /\ ingest = None
  /\ \E name \in LocalPdfNames \ pdfFiles : pdfFiles' = pdfFiles \cup {name}
  /\ unchanged' = FALSE
  /\ UNCHANGED <<crawlVars, indexVars, ingest, ppc, pdfQueue, pdfStats, pdfCall,
                 pdfOutcome, downloadLog, extractLog>>

\* process_all_pdfs(pdf_urls), up to the loop
process_all_pdfs(pdf_urls) ==
  /\ ppc = "idle"
  /\ ppc' = "all"
  /\ pdfCall' = [op |-> "process_all_pdfs", pdf_urls |-> pdf_urls,
                 before |-> rawDir]
  /\ pdfQueue' = pdf_urls
  /\ pdfStats' = [total |-> Len(pdf_urls), downloaded |-> 0, extracted |-> 0,
                  failed |-> 0]
  /\ pdfOutcome' = Running
  /\ downloadLog' = <<>>
  /\ extractLog' = <<>>
  /\ UNCHANGED <<crawlVars, indexVars, pdfFiles, unchanged>>

\* a call of process_all_pdfs from outside run_full_ingestion
CallProcessAllPdfs ==
  /\ ingest = None
  /\ \E pdf_urls \in ListsUpTo(PdfUrls, MaxPdfUrls) : process_all_pdfs(pdf_urls)
  /\ UNCHANGED ingest

\* a failed download that is not counted
CountPdfFailureNot(st) == st

\* "stats['failed'] += 1"
CountPdfFailure(st) == [st EXCEPT !.failed = @ + 1]

\* one iteration: download_pdf catches an exception and returns None
ProcessPdfDownloadFails ==
  /\ ppc = "all"
  /\ pdfQueue # <<>>
  /\ downloadLog' = Append(downloadLog, Head(pdfQueue))
  /\ pdfStats' = CountPdfFailure(pdfStats)
  /\ pdfQueue' = Tail(pdfQueue)
  /\ UNCHANGED <<crawlVars, indexVars, ingest, pdfFiles, ppc, pdfCall, pdfOutcome,
                 extractLog, unchanged>>

\* one iteration: the PDF is saved and no text is extracted from it
ProcessPdfNoText ==
  /\ ppc = "all"
  /\ pdfQueue # <<>>
  /\ LET pdf_path == PdfFileName(Head(pdfQueue))
     IN /\ extract_text_from_pdf(pdf_path) = 0
        /\ pdfFiles' = pdfFiles \cup {pdf_path}
        /\ extractLog' = Append(extractLog, pdf_path)
  /\ downloadLog' = Append(downloadLog, Head(pdfQueue))
  /\ pdfStats' = [pdfStats EXCEPT !.downloaded = @ + 1]
  /\ pdfQueue' = Tail(pdfQueue)
  /\ unchanged' = FALSE
  /\ UNCHANGED <<crawlVars, indexVars, ingest, ppc, pdfCall, pdfOutcome>>

\* one iteration: the PDF is saved, its text extracted and written
ProcessPdfOk ==
  /\ ppc = "all"
  /\ pdfQueue # <<>>
  /\ LET pdf_path == PdfFileName(Head(pdfQueue))
     IN /\ extract_text_from_pdf(pdf_path) # 0
        /\ pdfFiles' = pdfFiles \cup {pdf_path}
        /\ extractLog' = Append(extractLog, pdf_path)
        /\ rawDir' = WriteText(rawDir, pdf_path)
  /\ downloadLog' = Append(downloadLog, Head(pdfQueue))
  /\ pdfStats' = [pdfStats EXCEPT !.downloaded = @ + 1, !.extracted = @ + 1]
  /\ pdfQueue' = Tail(pdfQueue)
  /\ unchanged' = FALSE
  /\ UNCHANGED <<crawlIdle, indexVars, ingest, ppc, pdfCall, pdfOutcome>>

\* one iteration: the PDF is saved, its text extracted, and write_text raises;
\* nothing catches the exception in process_pdf or in process_all_pdfs
ProcessPdfWriteFails ==
  /\ ppc = "all"
  /\ pdfQueue # <<>>
  /\ LET pdf_path == PdfFileName(Head(pdfQueue))
     IN /\ extract_text_from_pdf(pdf_path) # 0
        /\ pdfFiles' = pdfFiles \cup {pdf_path}
        /\ extractLog' = Append(extractLog, pdf_path)
  /\ downloadLog' = Append(downloadLog, Head(pdfQueue))
  /\ pdfQueue' = Tail(pdfQueue)
  /\ pdfOutcome' = Raised("OSError")
  /\ ppc' = "idle"
  /\ unchanged' = FALSE
  /\ UNCHANGED <<crawlVars, indexVars, ingest, pdfStats, pdfCall>>

\* process_all_pdfs returns its statistics
ProcessAllReturn ==
  /\ ppc = "all"
  /\ pdfQueue = <<>>
  /\ pdfOutcome' = Returned(pdfStats)
  /\ ppc' = "idle"
  /\ UNCHANGED <<crawlVars, indexVars, ingest, pdfFiles, pdfQueue, pdfStats,
                 pdfCall, downloadLog, extractLog, unchanged>>

\* process_local_pdfs(), up to the loop: glob lists the PDF files in some order
process_local_pdfs ==
  /\ ppc = "idle"
  /\ ppc' = "local"
  /\ \E pdf_files \in Perms(pdfFiles) :
       /\ pdfQueue' = pdf_files
       /\ pdfStats' = [total |-> Len(pdf_files), extracted |-> 0, failed |-> 0]
  /\ pdfCall' = [op |-> "process_local_pdfs", rerun |-> unchanged,
                 before |-> rawDir]
  /\ pdfOutcome' = Running
  /\ downloadLog' = <<>>
  /\ extractLog' = <<>>
  /\ unchanged' = FALSE
  /\ UNCHANGED <<crawlVars, indexVars, pdfFiles>>

\* a call of process_local_pdfs from outside run_full_ingestion
CallProcessLocalPdfs ==
  /\ ingest = None
  /\ process_local_pdfs
  /\ UNCHANGED ingest

\* one iteration: the text artifact of the file exists already
LocalSkip ==
  /\ ppc = "local"
  /\ pdfQueue # <<>>
  /\ PdfTextName(Head(pdfQueue)) \in DOMAIN rawDir
  /\ pdfStats' = [pdfStats EXCEPT !.extracted = @ + 1]
  /\ pdfQueue' = Tail(pdfQueue)
  /\ UNCHANGED <<crawlVars, indexVars, ingest, pdfFiles, ppc, pdfCall, pdfOutcome,
                 downloadLog, extractLog, unchanged>>

\* one iteration: the text of the file is extracted and written
LocalExtractOk ==
  /\ ppc = "local"
  /\ pdfQueue # <<>>
  /\ PdfTextName(Head(pdfQueue)) \notin DOMAIN rawDir
  /\ extract_text_from_pdf(Head(pdfQueue)) # 0
  /\ extractLog' = Append(extractLog, Head(pdfQueue))
  /\ rawDir' = WriteText(rawDir, Head(pdfQueue))
  /\ pdfStats' = [pdfStats EXCEPT !.extracted = @ + 1]
  /\ pdfQueue' = Tail(pdfQueue)
  /\ UNCHANGED <<crawlIdle, indexVars, ingest, pdfFiles, ppc, pdfCall, pdfOutcome,
                 downloadLog, unchanged>>

\* one iteration: no text is extracted from the file
LocalNoText ==
  /\ ppc = "local"
  /\ pdfQueue # <<>>
  /\ PdfTextName(Head(pdfQueue)) \notin DOMAIN rawDir
  /\ extract_text_from_pdf(Head(pdfQueue)) = 0
  /\ extractLog' = Append(extractLog, Head(pdfQueue))
  /\ pdfStats' = [pdfStats EXCEPT !.failed = @ + 1]
  /\ pdfQueue' = Tail(pdfQueue)
  /\ UNCHANGED <<crawlVars, indexVars, ingest, pdfFiles, ppc, pdfCall, pdfOutcome,
                 downloadLog, unchanged>>

\* one iteration: the text is extracted and write_text raises; nothing
\* catches the exception in process_local_pdfs
LocalWriteFails ==
  /\ ppc = "local"
  /\ pdfQueue # <<>>
  /\ PdfTextName(Head(pdfQueue)) \notin DOMAIN rawDir
  /\ extract_text_from_pdf(Head(pdfQueue)) # 0
  /\ extractLog' = Append(extractLog, Head(pdfQueue))
  /\ pdfQueue' = Tail(pdfQueue)
  /\ pdfOutcome' = Raised("OSError")
  /\ ppc' = "idle"
  /\ UNCHANGED <<crawlVars, indexVars, ingest, pdfFiles, pdfStats, pdfCall,
                 downloadLog, unchanged>>

\* process_local_pdfs returns its statistics
LocalReturn ==
  /\ ppc = "local"
  /\ pdfQueue = <<>>
  /\ pdfOutcome' = Returned(pdfStats)
  /\ ppc' = "idle"
  /\ unchanged' = TRUE
  /\ UNCHANGED <<crawlVars, indexVars, ingest, pdfFiles, pdfQueue, pdfStats,
                 pdfCall, downloadLog, extractLog>>

\* the steps inside a call of pdf_processor
PdfStep ==
  \/ ProcessPdfDownloadFails
  \/ ProcessPdfNoText
  \/ ProcessPdfOk
  \/ ProcessPdfWriteFails
  \/ ProcessAllReturn
  \/ LocalSkip
  \/ LocalExtractOk
  \/ LocalNoText
  \/ LocalWriteFails
  \/ LocalReturn

NextPdf ==
  \/ PlacePdf
  \/ CallProcessAllPdfs
  \/ CallProcessLocalPdfs
  \/ PdfStep

\* the PDF pipeline called on its own
SpecPdf == InitPdf /\ [][NextPdf]_vars

(***************************************************************************)
(* Claims about the PDF pipeline                                           *)
(***************************************************************************)
\* the call made last is a process_local_pdfs call started on the directory
\* the previous process_local_pdfs call left on returning
SecondLocalRun ==
  /\ pdfCall # None
  /\ pdfCall.op = "process_local_pdfs"
  /\ pdfCall.rerun

\* C12: a second process_local_pdfs run over an unchanged directory leaves
\* the text artifacts as they were and calls the text extractor on no PDF.
C12_LocalIdempotent ==
  SecondLocalRun => rawDir = pdfCall.before /\ extractLog = <<>>

\* a process_pdf call of the running batch has just returned None: download_pdf
\* was called and the extractor was not
DownloadFailed ==
  /\ ppc = "all"
  /\ downloadLog' # downloadLog
  /\ extractLog' = extractLog

\* a process_pdf call of the running batch has just returned a path and no
\* text: the extractor gave ""
ExtractionFailed ==
  /\ ppc = "all"
  /\ extractLog' # extractLog
  /\ extract_text_from_pdf(extractLog'[Len(extractLog')]) = 0

\* C13: in process_all_pdfs a download or extraction failure leaves the batch
\* running; a download failure writes no text artifact and adds one to
\* 'failed'; when the call returns, download_pdf has been called once for each
\* entry of the input list, in order, downloaded + failed = total and
\* extracted <= downloaded.
C13_BatchIsolation ==
  [][/\ DownloadFailed =>
          /\ ppc' = "all"
          /\ pdfQueue' = Tail(pdfQueue)
          /\ rawDir' = rawDir
          /\ pdfStats'.failed = pdfStats.failed + 1
     /\ ExtractionFailed =>
          /\ ppc' = "all"
          /\ pdfQueue' = Tail(pdfQueue)
          /\ rawDir' = rawDir
     /\ (ppc = "all" /\ pdfOutcome'.kind = "returned") =>
          /\ downloadLog' = pdfCall'.pdf_urls
          /\ pdfOutcome'.value.downloaded + pdfOutcome'.value.failed
               = pdfOutcome'.value.total
          /\ pdfOutcome'.value.extracted <= pdfOutcome'.value.downloaded
          /\ pdfOutcome'.value.total = Len(pdfCall'.pdf_urls)]_vars

\* process_all_pdfs has returned from a batch of two URLs, the first of which
\* failed to download and the second of which was downloaded and gave no text
C13_Witness ==
  /\ pdfCall # None
  /\ pdfCall.op = "process_all_pdfs"
  /\ pdfOutcome.kind = "returned"
  /\ Len(pdfCall.pdf_urls) = 2
  /\ pdfOutcome.value.failed = 1
  /\ pdfOutcome.value.downloaded = 1
  /\ pdfOutcome.value.extracted = 0
  /\ rawDir = pdfCall.before

\* C14: a failed write of a text artifact is fatal to that item only: every
\* batch call that has ended has returned its statistics.
C14_WriteFailureIsolated ==
  (pdfCall # None /\ ppc = "idle") => pdfOutcome.kind = "returned"

(***************************************************************************)
(* Claims about incremental addition                                       *)
(***************************************************************************)
\* the chunks of the documents of the add_documents_to_store call c
AddedChunks(c) == chunk_documents(rawDir, c.docs)

BASE_URLS == <<Dept>>
PdfUrlConfigs == {<<>>, <<ScanPdf>>}

\* the page budgets run_full_ingestion is called with, each with the site it
\* crawls: one page of any site, or the quick run over the scenario site
IngestBudgets == {[max_pages |-> 1, env |-> "free"],
                  [max_pages |-> ScenarioMaxPages, env |-> "scenario"]}

\* the state run_full_ingestion is called in: no module is in a call, the
\* content area and the index are what an earlier run may have left, somebody
\* may have copied a PDF into RAW_DIR, and the flags are any
InitIngest ==
  /\ base_urls = <<>>
  /\ max_pages = 0
  /\ \E b \in IngestBudgets :
       /\ env = b.env
       /\ ingest \in [step : {"start"},
                      steps : {<<>>},
                      max_pages : {b.max_pages},
                      PDF_URLS : PdfUrlConfigs,
                      skip_scraping : BOOLEAN,
                      skip_pdfs : BOOLEAN,
                      force_rebuild : BOOLEAN,
                      pdf_links_from_scraping : {{}},
                      result : {None}]
  /\ pc = "done"
  /\ seedIdx = 0
  /\ visited = {}
  /\ to_visit = <<>>
  /\ stats = [pages_scraped |-> 0, pages_failed |-> 0, pdfs_found |-> 0]
  /\ all_pdf_links = <<>>
  /\ url = NoUrl
  /\ missed = {}
  /\ returned = None
  /\ attempts = 0
  /\ sleepPending = FALSE
  /\ failedSeed = {}
  /\ failedRun = {}
  /\ \E S \in SUBSET {Dept} :
       /\ rawDir \in {RawDirOf(S), RawDirOf({})}
       /\ LET store == from_documents(chunk_documents(RawDirOf(S), <<PageFileName(Dept)>>))
          IN /\ faissFile = IF S = {} THEN Absent ELSE File(store.index)
             /\ pklFile = IF S = {} THEN Absent ELSE File(store.docstore)
  /\ ipc = "idle"
  /\ saving = None
  /\ vs = None
  /\ call = None
  /\ outcome = None
  /\ writers = None
  /\ pdfFiles \in SUBSET LocalPdfNames
  /\ ppc = "idle"
  /\ pdfQueue = <<>>
  /\ pdfStats = None
  /\ pdfCall = None
  /\ pdfOutcome = None
  /\ downloadLog = <<>>
  /\ extractLog = <<>>
  /\ unchanged = FALSE

InIngest(step) == ingest # None /\ ingest.step = step

\* step 1: run_scraper(max_pages=max_pages) is called
IngestScrape ==
  /\ InIngest("start")
  /\ ~ingest.skip_scraping
  /\ ingest' = [ingest EXCEPT !.step = "scrape", !.steps = Append(@, "scrape")]
  /\ base_urls' = BASE_URLS
  /\ max_pages' = ingest.max_pages
  /\ pc' = "start"
  /\ UNCHANGED <<env, seedIdx, visited, to_visit, stats, all_pdf_links, url,
                 missed, rawDir, returned, attempts, sleepPending, failedSeed,
                 failedRun, indexVars, pdfVars>>

\* step 1 is skipped
IngestSkipScrape ==
  /\ InIngest("start")
  /\ ingest.skip_scraping
  /\ ingest' = [ingest EXCEPT !.step = "scraped"]
  /\ UNCHANGED <<crawlVars, indexVars, pdfVars>>

\* run_scraper has returned: "pdf_links_from_scraping = result.get('pdf_links', [])"
IngestScraped ==
  /\ InIngest("scrape")
  /\ pc = "done"
  /\ ingest' = [ingest EXCEPT !.step = "scraped",
                              !.pdf_links_from_scraping = returned.pdf_links]
  /\ UNCHANGED <<crawlVars, indexVars, pdfVars>>

\* the configured URLs alone, without those the crawl found
all_pdf_urlsConfigOnly == Range(ingest.PDF_URLS)

\* "list(set(PDF_URLS + pdf_links_from_scraping))": the URLs as a set
all_pdf_urls == Range(ingest.PDF_URLS) \cup ingest.pdf_links_from_scraping

\* step 2 with URLs to process: process_all_pdfs(all_pdf_urls) is called
IngestProcessAll ==
  /\ InIngest("scraped")
  /\ ~ingest.skip_pdfs
  /\ all_pdf_urls # {}
  /\ \E pdf_urls \in Perms(all_pdf_urls) : process_all_pdfs(pdf_urls)
  /\ ingest' = [ingest EXCEPT !.step = "pdf_all", !.steps = Append(@, "pdf")]

\* step 2, after process_all_pdfs or with no URL at all: process_local_pdfs()
\* is called
IngestProcessLocal ==
  /\ \/ /\ InIngest("scraped")
        /\ ~ingest.skip_pdfs
        /\ all_pdf_urls = {}
        /\ ingest' = [ingest EXCEPT !.step = "pdf_local", !.steps = Append(@, "pdf")]
     \/ /\ InIngest("pdf_all")
        /\ ppc = "idle"
        /\ pdfOutcome.kind = "returned"
        /\ ingest' = [ingest EXCEPT !.step = "pdf_local"]
  /\ process_local_pdfs

\* step 2 is skipped, or process_local_pdfs has returned: step 3 begins
IngestIndex ==
  /\ \/ InIngest("scraped") /\ ingest.skip_pdfs
     \/ InIngest("pdf_local") /\ ppc = "idle" /\ pdfOutcome.kind = "returned"
  /\ ingest' = [ingest EXCEPT !.step = "index", !.steps = Append(@, "index")]
  /\ UNCHANGED <<crawlVars, indexVars, pdfVars>>

\* an exception of step 2 leaves run_full_ingestion: nothing catches it
IngestRaises ==
  /\ InIngest("pdf_all") \/ InIngest("pdf_local")
  /\ ppc = "idle"
  /\ pdfOutcome.kind = "raised"
  /\ ingest' = [ingest EXCEPT !.step = "raised"]
  /\ UNCHANGED <<crawlVars, indexVars, pdfVars>>

\* step 3: get_or_create_vector_store(force_recreate=force_rebuild)
IngestGetOrCreate ==
  /\ InIngest("index")
  /\ call = None
  /\ GetOrCreateLoad \/ GetOrCreateNoDocs \/ GetOrCreateBuild
  /\ call'.force = ingest.force_rebuild

\* step 3: get_collection_stats() after the store is returned
IngestStats ==
  /\ InIngest("index")
  /\ call # None
  /\ call.op = "get_or_create"
  /\ outcome.kind = "returned"
  /\ GetCollectionStats

\* "return True"
IngestReturnTrue ==
  /\ InIngest("index")
  /\ call # None
  /\ call.op = "get_collection_stats"
  /\ ingest' = [ingest EXCEPT !.step = "done", !.result = TRUE]
  /\ UNCHANGED <<crawlVars, indexVars, pdfVars>>

\* "except Exception: return False"
IngestReturnFalse ==
  /\ InIngest("index")
  /\ call # None
  /\ call.op = "get_or_create"
  /\ outcome.kind = "raised"
  /\ ingest' = [ingest EXCEPT !.step = "done", !.result = FALSE]
  /\ UNCHANGED <<crawlVars, indexVars, pdfVars>>

NextIngest ==
  \/ IngestScrape
  \/ NextCrawl
  \/ IngestSkipScrape
  \/ IngestScraped
  \/ IngestProcessAll
  \/ IngestProcessLocal
  \/ PdfStep
  \/ IngestRaises
  \/ IngestIndex
  \/ IngestGetOrCreate
  \/ SavePkl
  \/ IngestStats
  \/ IngestReturnTrue
  \/ IngestReturnFalse

\* one call of run_full_ingestion
SpecIngest == InitIngest /\ [][NextIngest]_vars

(***************************************************************************)
(* Claims about run_full_ingestion                                         *)
(***************************************************************************)
\* C16: when run_full_ingestion has returned True, the persisted index holds
\* the chunks of every text artifact of the content area.
C16_IngestUpdatesIndex ==
  (InIngest("done") /\ ingest.result = TRUE) =>
    /\ pklFile # Absent
    /\ AllChunks(rawDir) \subseteq Range(pklFile[1])

\* the orders in which a run may enter its stages
StageOrders ==
  {<<>>, <<"scrape">>, <<"pdf">>, <<"index">>, <<"scrape", "pdf">>,
   <<"scrape", "index">>, <<"pdf", "index">>, <<"scrape", "pdf", "index">>}

\* the crawler, the PDF pipeline, the indexer is inside a call
CrawlRunning == pc # "done"
PdfRunning == ppc # "idle"
IndexRunning == ipc # "idle"

C17_WitnessSkips ==
  /\ InIngest("done")
  /\ ingest.skip_scraping
  /\ ingest.skip_pdfs
  /\ ingest.steps = <<"index">>

(***************************************************************************)
(* The splitter of chunk_documents: RecursiveCharacterTextSplitter with    *)
(* chunk_size = CHUNK_SIZE, chunk_overlap = CHUNK_OVERLAP, length_function *)
(* = len and separators ["\n\n", "\n", ". ", " ", ""]                      *)
(***************************************************************************)
\* largest number of words of a document
MaxWords == 3

\* a document is a list of word lengths: words of those lengths, one space
\* between two words, no other separator
WordLens == {CHUNK_OVERLAP \div 2, CHUNK_OVERLAP, CHUNK_SIZE - CHUNK_OVERLAP,
             CHUNK_SIZE, CHUNK_SIZE + 1}

Docs == ListsUpTo(WordLens, MaxWords)

\* the lists of documents chunk_documents is called with
DocLists == {<<>>} \cup {<<d>> : d \in Docs}
              \cup {<<<<m>>, <<n>>>> : m, n \in WordLens}

\* position of the first character of word k
WordStart(doc, k) ==
  LET before[i \in 0..(k - 1)] == IF i = 0 THEN 0 ELSE before[i - 1] + doc[i] + 1
  IN before[k - 1] + 1

\* len(page_content)
TextLen(doc) ==
  IF doc = <<>> THEN 0 ELSE WordStart(doc, Len(doc)) + doc[Len(doc)] - 1

Space == 0

\* the page_content of a document: the character at position p is a space, or
\* a character of a word, written p
TextOf(doc) ==
  LET spaces == {WordStart(doc, k) - 1 : k \in 2..Len(doc)}
  IN [p \in 1..TextLen(doc) |-> IF p \in spaces THEN Space ELSE p]

\* a piece of the text: the characters from..to
Piece(from, to) == [from |-> from, to |-> to]
PieceLen(s) == s.to - s.from + 1

\* _split_text_with_regex(text, " ", keep_separator=True): the first word, then
\* every other word with the space before it
WordSplits(doc) ==
  [k \in 1..Len(doc) |->
     Piece(IF k = 1 THEN 1 ELSE WordStart(doc, k) - 1,
           WordStart(doc, k) + doc[k] - 1)]

RECURSIVE StripPiece(_, _)
\* _join_docs: the pieces are joined and text.strip() is applied; None for an
\* empty result
StripPiece(text, s) ==
  IF s.from > s.to THEN None
  ELSE IF text[s.from] = Space THEN StripPiece(text, Piece(s.from + 1, s.to))
  ELSE IF text[s.to] = Space THEN StripPiece(text, Piece(s.from, s.to - 1))
  ELSE s

\* the joined text of the consecutive pieces of current_doc
JoinDocs(text, current_doc) ==
  StripPiece(text, Piece(current_doc[1].from, current_doc[Len(current_doc)].to))

RECURSIVE DropWhileLarge(_, _)
\* the while loop of _merge_splits: pieces are dropped from the front of
\* current_doc while total > chunk_overlap, or while the next piece of length
\* n does not fit and total > 0
DropWhileLarge(current_doc, n) ==
  LET total == IF current_doc = <<>> THEN 0
               ELSE current_doc[Len(current_doc)].to - current_doc[1].from + 1
  IN IF total > CHUNK_OVERLAP \/ (total + n > CHUNK_SIZE /\ total > 0)
     THEN DropWhileLarge(Tail(current_doc), n)
     ELSE current_doc

RECURSIVE merge_splits(_, _, _)
\* _merge_splits(splits, ""): pieces are collected until the next one would
\* make the chunk longer than chunk_size; the chunk is emitted and its tail of
\* at most chunk_overlap characters, in whole pieces, starts the next chunk
merge_splits(text, splits, current_doc) ==
  IF splits = <<>>
  THEN IF current_doc = <<>> \/ JoinDocs(text, current_doc) = None THEN <<>>
       ELSE <<JoinDocs(text, current_doc)>>
  ELSE LET d == Head(splits)
           total == IF current_doc = <<>> THEN 0
                    ELSE current_doc[Len(current_doc)].to - current_doc[1].from + 1
       IN IF total + PieceLen(d) > CHUNK_SIZE /\ current_doc # <<>>
          THEN (IF JoinDocs(text, current_doc) = None THEN <<>>
                ELSE <<JoinDocs(text, current_doc)>>)
               \o merge_splits(text, Tail(splits),
                               Append(DropWhileLarge(current_doc, PieceLen(d)), d))
          ELSE merge_splits(text, Tail(splits), Append(current_doc, d))

\* _split_text(s, [""]) of a piece without separator: the piece is cut into
\* characters and _merge_splits joins them again, which gives windows of
\* chunk_size characters, each starting chunk_size - chunk_overlap after the
\* one before
CharWindows(text, s) ==
  LET step == CHUNK_SIZE - CHUNK_OVERLAP
      windows == [i \in 1..SplitCount(PieceLen(s)) |->
                    LET from == s.from + (i - 1) * step
                        to == from + CHUNK_SIZE - 1
                    IN StripPiece(text, Piece(from, IF to < s.to THEN to ELSE s.to))]
  IN SelectSeq(windows, LAMBDA w : w # None)

\* a test that takes every split for a short one
IsGoodSplitAlways(s) == TRUE

\* "if self._length_function(s) < self._chunk_size": a split shorter than
\* chunk_size is merged with its neighbours, any other is split again with
\* the separators that are left
IsGoodSplit(s) == PieceLen(s) < CHUNK_SIZE

RECURSIVE SplitPieces(_, _, _)
\* the loop of _split_text over the splits by " ": short splits are merged,
\* a long one flushes the short ones collected and is split by ""
SplitPieces(text, splits, good_splits) ==
  IF splits = <<>> THEN merge_splits(text, good_splits, <<>>)
  ELSE IF IsGoodSplit(Head(splits))
       THEN SplitPieces(text, Tail(splits), Append(good_splits, Head(splits)))
       ELSE merge_splits(text, good_splits, <<>>)
            \o CharWindows(text, Head(splits))
            \o SplitPieces(text, Tail(splits), <<>>)

\* split_text: the first separator of the list found in the text is " " when
\* the document has two words or more, and "" when it has one
split_text(doc) ==
  LET text == TextOf(doc)
      pieces == IF doc = <<>> THEN <<>>
                ELSE IF Len(doc) = 1 THEN CharWindows(text, Piece(1, TextLen(doc)))
                ELSE SplitPieces(text, WordSplits(doc), <<>>)
  IN [i \in 1..Len(pieces) |-> SubSeq(text, pieces[i].from, pieces[i].to)]

RECURSIVE split_documents(_, _)
\* split_documents: the chunks of the documents from the i-th on, document by
\* document, each with the metadata of its document
split_documents(documents, i) ==
  IF i > Len(documents) THEN <<>>
  ELSE LET texts == split_text(documents[i])
       IN [j \in 1..Len(texts) |-> [page_content |-> texts[j], source |-> i]]
          \o split_documents(documents, i + 1)

\* the state chunk_documents is called in: no module is in a call
InitChunk == InitPdf

\* chunk_documents(documents)
ChunkDocuments ==
  /\ ipc = "idle"
  /\ call = None
  /\ \E documents \in DocLists :
       /\ call' = [op |-> "chunk_documents", documents |-> documents]
       /\ outcome' = Returned(split_documents(documents, 1))
  /\ UNCHANGED <<pdfVars, ingest, crawlVars, writers, faissFile, pklFile, ipc, saving, vs>>

NextChunk == ChunkDocuments

\* chunk_documents called on its own
SpecChunk == InitChunk /\ [][NextChunk]_vars

(***************************************************************************)
(* Claims about the chunks                                                 *)
(***************************************************************************)
\* chunk_documents has returned
Chunked == call # None /\ call.op = "chunk_documents"

\* the chunks of the i-th document of the call, in order
ChunksOf(i) ==
  LET of_i == SelectSeq(outcome.value, LAMBDA c : c.source = i)
  IN [j \in 1..Len(of_i) |-> of_i[j].page_content]

\* C18: every chunk chunk_documents returns is at most CHUNK_SIZE characters
\* long.
C18_ChunkLength ==
  Chunked => \A i \in 1..Len(outcome.value) :
               Len(outcome.value[i].page_content) <= CHUNK_SIZE

\* chunk_documents has cut a word longer than CHUNK_SIZE that follows another
\* word, and a document of one word longer than CHUNK_SIZE
C18_Witness ==
  /\ Chunked
  /\ \E i \in 1..Len(call.documents) :
       /\ Len(call.documents[i]) >= 2
       /\ call.documents[i][2] > CHUNK_SIZE
       /\ Len(ChunksOf(i)) >= 3

RECURSIVE Rejoin(_)
\* the chunks of one document, joined after the first CHUNK_OVERLAP characters
\* of every chunk but the first are removed
Rejoin(texts) ==
  IF texts = <<>> THEN <<>>
  ELSE IF Len(texts) = 1 THEN texts[1]
  ELSE Rejoin(SubSeq(texts, 1, Len(texts) - 1))
       \o SubSeq(texts[Len(texts)], CHUNK_OVERLAP + 1, Len(texts[Len(texts)]))

\* C19: for every document, the chunks of the document joined with the first
\* CHUNK_OVERLAP characters removed from every chunk but the first are the
\* text of the document.
C19_RoundTrip ==
  Chunked => \A i \in 1..Len(call.documents) :
               Rejoin(ChunksOf(i)) = TextOf(call.documents[i])

(***************************************************************************)
(* The page functions called on their own: is_valid_url, the two file     *)
(* name derivations and scrape_page                                        *)
(***************************************************************************)
\* the URLs the functions are called with: a host of the seed's domain, a
\* host of a subdomain or a foreign host; a path of plain, non-ASCII or
\* percent-encoded letters; no extension, a blocked one or .pdf; no query, a
\* plain one or one that holds "mailto:" or "tel:"; a fragment or none;
\* besides them a fragment-only, a mailto: and a tel: reference
UrlHosts == {Host, <<"sub.", "univ.example">>, <<"othersite.example">>}
UrlStems == {<<"dept", "/", "page">>, <<"dept", "/", NonAsciiLetter>>,
             <<"dept", "/", PercentEncoded>>}
UrlExts == {<<>>, <<".png">>, <<".JS">>, <<".pdf">>}
UrlQueries == {<<>>, <<"?", "v">>, <<"?", "mailto:", "x">>, <<"?", "tel:", "1">>}
UrlFragments == {<<>>, <<"#", "top">>}
UrlCandidates ==
  {h \o <<"/">> \o s \o e \o q \o f :
     h \in UrlHosts, s \in UrlStems, e \in UrlExts, q \in UrlQueries,
     f \in UrlFragments}
  \cup {FragTop, <<"mailto:", "x">>, <<"tel:", "1">>}

\* the network locations of the seeds
BaseDomains == {Host}

\* no module is in a call
InitUrl == InitPdf

\* is_valid_url(url, base_domain)
CallIsValidUrl ==
  /\ ipc = "idle"
  /\ call = None
  /\ \E u \in UrlCandidates, d \in BaseDomains :
       /\ call' = [op |-> "is_valid_url", url |-> u, base_domain |-> d]
       /\ outcome' = Returned(is_valid_url(u, d))
  /\ UNCHANGED <<pdfVars, ingest, crawlVars, writers, faissFile, pklFile, ipc, saving, vs>>

\* save_scraped_content(url, text): the name of the file it writes
CallSaveScrapedContent ==
  /\ ipc = "idle"
  /\ call = None
  /\ \E u \in UrlCandidates :
       /\ call' = [op |-> "save_scraped_content", url |-> u]
       /\ outcome' = Returned(PageFileName(u))
  /\ UNCHANGED <<pdfVars, ingest, crawlVars, writers, faissFile, pklFile, ipc, saving, vs>>

\* download_pdf(url): the name of the file it writes, None when the request
\* is not answered
CallDownloadPdf ==
  /\ ipc = "idle"
  /\ call = None
  /\ \E u \in UrlCandidates, ok \in BOOLEAN :
       /\ call' = [op |-> "download_pdf", url |-> u, answered |-> ok]
       /\ outcome' = Returned(IF ok THEN PdfFileName(u) ELSE None)
  /\ UNCHANGED <<pdfVars, ingest, crawlVars, writers, faissFile, pklFile, ipc, saving, vs>>

\* largest number of elements of a served document
MaxElements == 2

\* the tags whose elements extract_text_from_html removes
StrippedTags == {"script", "style", "nav", "footer", "header"}

\* an element of a document: its tag and the href attributes of the anchors
\* inside it; a document is the list of its elements, and the text of an
\* element is written as the position of the element in the document
Elements == [tag : {"nav", "header", "footer", "main", "div"},
             hrefs : {{}, {Page2}, {DocPdf}, {OffSite}}]

Soups == ListsUpTo(Elements, MaxElements)

\* soup.find_all('a', href=True): the href attributes of all anchors
find_all_a(soup) == UNION {soup[i].hrefs : i \in 1..Len(soup)}

\* "for element in soup([...]): element.decompose()": the positions of the
\* elements that are left
decompose(soup) == {i \in 1..Len(soup) : soup[i].tag \notin StrippedTags}

\* extract_text_from_html: the text of the first main element that is left,
\* or else the text of everything that is left
extract_text_from_html(soup) ==
  LET left == decompose(soup)
      mains == {i \in left : soup[i].tag = "main"}
  IN IF mains # {} THEN <<CHOOSE i \in mains : \A j \in mains : i <= j>>
     ELSE SelectSeq([i \in 1..Len(soup) |-> i], LAMBDA i : i \in left)

\* a parse that collects the anchors after the elements are removed
ParsedAfterStripping(soup) ==
  [text |-> extract_text_from_html(soup),
   anchors |-> UNION {soup[i].hrefs : i \in decompose(soup)}]

\* what scrape_page takes from a parsed answer: the anchors are read from the
\* whole document, then the text is extracted
Parsed(soup) ==
  [text |-> extract_text_from_html(soup), anchors |-> find_all_a(soup)]

\* scrape_page(url) with the document the request is answered with, None
\* when it is not answered
CallScrapePage ==
  /\ ipc = "idle"
  /\ call = None
  /\ \E soup \in Soups, ok \in BOOLEAN :
       /\ call' = [op |-> "scrape_page", url |-> Dept, soup |-> soup,
                   answered |-> ok]
       /\ outcome' = Returned(scrape_page(Dept, IF ok THEN Parsed(soup) ELSE None))
  /\ UNCHANGED <<pdfVars, ingest, crawlVars, writers, faissFile, pklFile, ipc, saving, vs>>

NextUrl ==
  CallIsValidUrl \/ CallSaveScrapedContent \/ CallDownloadPdf \/ CallScrapePage

\* one call of one of the page functions
SpecUrl == InitUrl /\ [][NextUrl]_vars

(***************************************************************************)
(* Claims about the page functions                                         *)
(***************************************************************************)
\* is_valid_url has returned
ValidUrlCalled == call # None /\ call.op = "is_valid_url"

\* the three conditions of acceptance: the host matches the domain of the
\* seed, the path does not end in a blocked extension, the URL is no
\* fragment-only, mailto: or tel: reference
InDomainPage(u, d) ==
  /\ IsInfix(d, urlparse(u).netloc)
  /\ ~LowerEndsWithAny(urlparse(u).path, skip_extensions)
  /\ ~(StartsWith(u, <<"#">>) \/ (u # <<>> /\ Head(u) \in OpaqueSchemes))

\* C21: is_valid_url accepts a URL exactly when its host matches the domain
\* of the seed, its path does not end in a blocked extension and it is no
\* fragment-only, mailto: or tel: reference; a query string or a fragment
\* after a blocked extension does not make it accepted, and "mailto:" or
\* "tel:" inside the path or the query does not make it rejected.
C21_ValidUrl ==
  ValidUrlCalled => (outcome.value <=> InDomainPage(call.url, call.base_domain))

(***************************************************************************)
(* Claims about the order and the bookkeeping of the crawl                 *)
(***************************************************************************)
\* a step of the while loop that stays in the crawl of the current seed
LoopStep == pc = "while" /\ pc' = "while" /\ seedIdx' = seedIdx

\* C22: the frontier is a FIFO queue: every iteration of the loop takes the
\* URL at the head of the frontier, keeps the rest of the frontier in its
\* order and puts new links only behind it, so URLs are fetched in the order
\* they were enqueued and a link found on a page is fetched after every URL
\* that was in the frontier when the page was fetched.
C22_Fifo ==
  [][LoopStep => /\ url' = Head(to_visit)
                 /\ StartsWith(to_visit', Tail(to_visit))
                 /\ FetchStep => visited' = visited \cup {Head(to_visit)}]_vars

\* the seed page linked page2 and a page of the subdomain, page2 linked the
\* PDF: the page of the subdomain was fetched before the PDF link
C22_Witness ==
  /\ pc = "while"
  /\ url = SubA
  /\ visited = {Dept, Page2, SubA}
  /\ to_visit = <<DocPdf>>

\* run_scraper on a site none of whose pages has more than MinTextLen
\* characters of text, the empty text included
InitShort == InitRun({"short"})

SpecShort == InitShort /\ [][NextCrawl]_vars

C24_DistinctNames ==
  [][/\ \A f \in DOMAIN rawDir : rawDir'[f] = rawDir[f]
     /\ Cardinality(DOMAIN rawDir') = stats'.pages_scraped]_vars

\* save_scraped_content or download_pdf has returned the name of a file
NameReturned ==
  /\ call # None
  /\ \/ call.op = "save_scraped_content"
     \/ call.op = "download_pdf" /\ call.answered

\* every character of the token is one of [A-Za-z0-9._-]
AsciiNameTok(t) ==
  t \notin {"/", "?", "#", "mailto:", "tel:", PercentEncoded, NonAsciiLetter}

\* C25: the file names save_scraped_content and download_pdf produce hold
\* only characters of [A-Za-z0-9._-], and the name of a page is the host,
\* "_", the path with "_" for "/", and ".txt".
C25_SafeNames ==
  NameReturned =>
    /\ \A i \in 1..Len(outcome.value) : AsciiNameTok(outcome.value[i])
    /\ call.op = "save_scraped_content" =>
         /\ StartsWith(outcome.value, urlparse(call.url).netloc \o <<"_">>)
         /\ EndsWith(outcome.value, <<".txt">>)

\* scrape_page has returned what it took from an answered request
PageScraped == call # None /\ call.op = "scrape_page" /\ call.answered

\* C26: the links are taken before the structural elements are removed: a
\* link to a page of the domain and a PDF link that stand in a nav, header or
\* footer element are among the links scrape_page returns, and the text of
\* the element is not in the text it returns.
C26_LinksBeforeStripping ==
  PageScraped =>
    \A i \in 1..Len(call.soup) :
      call.soup[i].tag \in {"nav", "header", "footer"} =>
        /\ \A href \in call.soup[i].hrefs :
             /\ InDomainPage(href, urlparse(call.url).netloc)
                  => href \in outcome.value.page_links
             /\ LowerEndsWithAny(href, {".pdf"})
                  => href \in outcome.value.pdf_links
        /\ i \notin Range(outcome.value.text)

\* a document of a nav element with a PDF link, followed by the main element
C26_Witness ==
  /\ PageScraped
  /\ call.soup = <<[tag |-> "nav", hrefs |-> {DocPdf}], [tag |-> "main", hrefs |-> {}]>>
  /\ outcome.value = [text |-> <<2>>, page_links |-> {DocPdf}, pdf_links |-> {DocPdf}]

\* C27: every seed is crawled on its own: when the crawl of a seed starts the
\* visited set is empty and the frontier holds the seed alone, whatever the
\* crawls before it did; a page is fetched only while fewer than max_pages
\* URLs of the current seed are visited; the counters and the PDF list are
\* carried over from seed to seed and only grow.
C27_SeedsIndependent ==
  [][/\ seedIdx' # seedIdx =>
          /\ visited' = {}
          /\ to_visit' = <<base_urls[seedIdx']>>
          /\ stats' = stats
          /\ all_pdf_links' = all_pdf_links
     /\ FetchStep => Cardinality(visited) < max_pages /\ visited' \subseteq {url'} \cup visited
     /\ pc' # "start" => StartsWith(all_pdf_links', all_pdf_links)]_vars

\* the crawl of the first seed used the whole budget and found a PDF link,
\* the crawl of the second seed fetched a page and found the link again
C27_Witness ==
  /\ seedIdx = 2
  /\ max_pages = 1
  /\ attempts = 1
  /\ stats.pages_scraped = 2
  /\ all_pdf_links = <<DocPdf, DocPdf>>

\* pages counted as scraped or as failed
Counted(st) == st.pages_scraped + st.pages_failed

\* C28: the three counters are never negative and never decrease; a step
\* that fetches a page adds one to at most one of pages_scraped and
\* pages_failed, a step that fetches none changes no counter, so
\* pages_scraped + pages_failed never exceeds the number of fetch attempts
\* (counted by attempts while the first seed is crawled).
C28_Counters ==
  [][/\ \A c \in DOMAIN stats : 0 <= stats[c] /\ stats[c] <= stats'[c]
     /\ IF FetchStep
        THEN /\ Counted(stats') - Counted(stats) \in {0, 1}
             /\ stats'.pages_scraped - stats.pages_scraped \in {0, 1}
             /\ stats'.pages_failed - stats.pages_failed \in {0, 1}
        ELSE stats' = stats
     /\ seedIdx' = 1 => Counted(stats') <= attempts']_vars

\* three pages of a seed were fetched: one was saved, one request failed, one
\* page was too short to be saved
C28_Witness ==
  /\ seedIdx = 1
  /\ attempts = 3
  /\ stats.pages_scraped = 1
  /\ stats.pages_failed = 1

(***************************************************************************)
(* Two callers of add_documents_to_store at the same time                  *)
(***************************************************************************)
\* the concurrent callers
Writers == {"w1", "w2"}

\* every caller is about to call add_documents_to_store(new_documents) with
\* one artifact of the content area and no store of its own
InitWriters ==
  /\ InitIndex
  /\ rawDir # <<>>

\* the call of every caller
StartWriters ==
  /\ writers = None
  /\ ipc = "idle"
  /\ \E docs \in [Writers -> DOMAIN rawDir] :
       writers' = [w \in Writers |->
                     [pc |-> "load_faiss", new_documents |-> <<docs[w]>>,
                      index |-> None, loaded |-> None, vector_store |-> None]]
  /\ UNCHANGED <<pdfVars, ingest, crawlVars, faissFile, pklFile, ipc, saving, vs,
                 call, outcome>>

\* what a step of caller w leaves alone
WriterFrame ==
  UNCHANGED <<pdfVars, ingest, crawlVars, ipc, saving, vs, call, outcome>>

\* load_vector_store of caller w: FAISS.load_local reads the index file
WriterReadFaiss(w) ==
  /\ writers # None
  /\ writers[w].pc = "load_faiss"
  /\ LET me == writers[w]
     IN writers' = [writers EXCEPT ![w] =
                      IF faissFile = Absent THEN [me EXCEPT !.pc = "raised"]
                      ELSE [me EXCEPT !.pc = "load_pkl", !.index = faissFile[1]]]
  /\ UNCHANGED <<faissFile, pklFile>>
  /\ WriterFrame

\* FAISS.load_local reads the pickle; chunk_documents and
\* vector_store.add_documents then work on the store in memory
WriterReadPkl(w) ==
  /\ writers # None
  /\ writers[w].pc = "load_pkl"
  /\ LET me == writers[w]
         store == [index |-> me.index, docstore |-> pklFile[1]]
         chunks == chunk_documents(rawDir, me.new_documents)
     IN writers' = [writers EXCEPT ![w] =
                      IF pklFile = Absent THEN [me EXCEPT !.pc = "raised"]
                      ELSE [me EXCEPT !.pc = "save_faiss",
                                      !.loaded = store,
                                      !.vector_store = add_documents(store, chunks)]]
  /\ UNCHANGED <<faissFile, pklFile>>
  /\ WriterFrame

\* save_local of caller w writes the index file
WriterSaveFaiss(w) ==
  /\ writers # None
  /\ writers[w].pc = "save_faiss"
  /\ faissFile' = File(writers[w].vector_store.index)
  /\ writers' = [writers EXCEPT ![w].pc = "save_pkl"]
  /\ UNCHANGED pklFile
  /\ WriterFrame

\* save_local of caller w writes the pickle, the call returns
WriterSavePkl(w) ==
  /\ writers # None
  /\ writers[w].pc = "save_pkl"
  /\ pklFile' = File(writers[w].vector_store.docstore)
  /\ writers' = [writers EXCEPT ![w].pc = "returned"]
  /\ UNCHANGED faissFile
  /\ WriterFrame

WriterStep(w) ==
  \/ WriterReadFaiss(w)
  \/ WriterReadPkl(w)
  \/ WriterSaveFaiss(w)
  \/ WriterSavePkl(w)

NextWriters == StartWriters \/ \E w \in Writers : WriterStep(w)

\* two add_documents_to_store calls whose steps interleave freely
SpecWriters == InitWriters /\ [][NextWriters]_vars

(***************************************************************************)
(* Claims about concurrent additions                                       *)
(***************************************************************************)
\* both calls have returned
BothReturned == writers # None /\ \A w \in Writers : writers[w].pc = "returned"

\* C29: two concurrent add_documents_to_store calls take effect one after
\* the other: when both have returned, one of them had loaded the store the
\* other one saved, and the files on disk are the store it saved itself, so
\* the persisted index holds the chunks of both.
C29_NoLostUpdate ==
  BothReturned =>
    \E first, second \in Writers :
      /\ first # second
      /\ writers[second].loaded = writers[first].vector_store
      /\ faissFile = File(writers[second].vector_store.index)
      /\ pklFile = File(writers[second].vector_store.docstore)

============================================================================
